---- MODULE Spec2Model ----
(***************************************************************************)
(* The node-selection core of the scheduler (src/methods.go): getMetrics,  *)
(* getBestNodeByMetrics, bestNodeFromList and nodesAvailable, run by a     *)
(* set of concurrent callers that share the two cache slots cachedNodes    *)
(* and bestCachedNode and the mutex bestNodeMutex.                         *)
(*                                                                         *)
(* A node name is a Go string, modelled as a tuple of one-character        *)
(* strings so that strings.Split(name, ".")[0] is computed, not assumed.   *)
(* A metric is a float64; the model draws it from a range of integers.     *)
(***************************************************************************)
EXTENDS Integers, Sequences, FiniteSets, TLC

\* ---------------------------------------------------------------- bounds

\* Longest node list handed to getBestNodeByMetrics.
MaxLen == 2

\* Largest metric value the backend reports (the smallest is -1).
MaxMetric == 1

\* Most node objects in one ListNodes answer.
MaxListed == 2

\* The goroutines that call nodesAvailable and getBestNodeByMetrics.
Callers == {"c1", "c2"}

\* Node names: one bare host name and one fully qualified name.
Names == { <<"a">>, <<"b", ".", "x">> }

Metrics == -1 .. MaxMetric

\* ------------------------------------------------------------- data types

\* The zero value of the Go struct Node{name, metric, err}.
ZeroNode == [name |-> <<>>, metric |-> 0, err |-> "nil"]

\* The metric value line 127 treats as "no value".
NoMetric == -1

RECURSIVE SeqsUpTo(_, _)
SeqsUpTo(S, n) ==
    IF n = 0 THEN { <<>> }
    ELSE LET shorter == SeqsUpTo(S, n - 1)
         IN shorter \cup { Append(s, x) : s \in { t \in shorter : Len(t) = n - 1 }, x \in S }

Range(s) == { s[i] : i \in 1 .. Len(s) }

\* The argument values of getBestNodeByMetrics: lists of distinct node names
\* (the names of a cluster's nodes are unique).
NodeLists ==
    { l \in SeqsUpTo(Names, MaxLen) :
        \A i, j \in 1 .. Len(l) : i # j => l[i] # l[j] }

\* ------------------------------------------------------------ getMetrics

\* What sysdigAPI.GetData can answer: a transport error, or a status code and
\* a body that is either not JSON or a decoded {"data":[{"d":[...]}, ...]}.
Bodies ==
    { [json |-> FALSE, data |-> <<>>] }
    \cup { [json |-> TRUE, data |-> d] :
             d \in { <<>>, << <<>> >> }
                   \cup { << <<v>> >> : v \in Metrics }
                   \cup { << <<v, 0>>, <<1>> >> : v \in Metrics }
                   \cup { << <<>>, <<v>> >> : v \in Metrics } }

Responses ==
    { [transport |-> TRUE, status |-> 0, body |-> [json |-> FALSE, data |-> <<>>]] }
    \cup { [transport |-> FALSE, status |-> s, body |-> b] : s \in {200, 500}, b \in Bodies }

\* The status codes a backend answer is drawn from when getMetrics is
\* evaluated on its own.
Statuses == {200, 201, 204, 404, 500}

ProbeResponses ==
    { [transport |-> TRUE, status |-> 0, body |-> [json |-> FALSE, data |-> <<>>]] }
    \cup { [transport |-> FALSE, status |-> s, body |-> b] : s \in Statuses, b \in Bodies }

\* getMetrics with a first sample of 0 taken for a missing sample.
getMetricsZeroIsNoData(hostname, resp) ==
    IF resp.transport THEN [metricValue |-> 0, err |-> "transport"]
    ELSE IF resp.status # 200 THEN [metricValue |-> 0, err |-> "status"]
    ELSE IF ~resp.body.json THEN [metricValue |-> 0, err |-> "json"]
    ELSE IF Len(resp.body.data) > 0 /\ Len(resp.body.data[1]) > 0
            /\ resp.body.data[1][1] # 0
         THEN [metricValue |-> resp.body.data[1][1], err |-> "nil"]
    ELSE [metricValue |-> 0, err |-> "noDataFound"]

\* getMetrics: the (metricValue, err) pair returned for the backend answer resp.
getMetrics(hostname, resp) ==
    IF resp.transport THEN [metricValue |-> 0, err |-> "transport"]
    ELSE IF resp.status # 200 THEN [metricValue |-> 0, err |-> "status"]
    ELSE IF ~resp.body.json THEN [metricValue |-> 0, err |-> "json"]
    ELSE IF Len(resp.body.data) > 0 /\ Len(resp.body.data[1]) > 0
         THEN [metricValue |-> resp.body.data[1][1], err |-> "nil"]
    ELSE [metricValue |-> 0, err |-> "noDataFound"]

\* strings.Split(nodeName, ".")[0]: the text before the first "."
RECURSIVE ShortHost(_)
ShortHost(nodeName) ==
    IF nodeName = <<>> \/ Head(nodeName) = "." THEN <<>>
    ELSE <<Head(nodeName)>> \o ShortHost(Tail(nodeName))

\* ------------------------------------------------------ bestNodeFromList

\* NodeList.Less: nodes are ordered by metric, ascending.
Less(x, y) == x.metric < y.metric

\* One pass of the inner loop of sort.Sort's insertion sort (the algorithm Go
\* runs on fewer than 12 elements): x, placed last, is swapped towards the
\* front while it is Less than its predecessor.
RECURSIVE InsertNode(_, _)
InsertNode(sorted, x) ==
    IF sorted = <<>> THEN <<x>>
    ELSE IF Less(x, sorted[Len(sorted)])
         THEN Append(InsertNode(SubSeq(sorted, 1, Len(sorted) - 1), x), sorted[Len(sorted)])
         ELSE Append(sorted, x)

RECURSIVE SortNodes(_)
SortNodes(list) ==
    IF list = <<>> THEN <<>>
    ELSE InsertNode(SortNodes(SubSeq(list, 1, Len(list) - 1)), list[Len(list)])

\* bestNodeFromList with the mode test lost: the last node whatever the mode.
bestNodeFromListAlwaysLast(list, lower) ==
    LET sorted == SortNodes(list)
    IN IF Len(sorted) > 0 THEN sorted[Len(sorted)] ELSE ZeroNode

\* bestNodeFromList: sort, then the first node (lower is better) or the last.
bestNodeFromList(list, lower) ==
    LET sorted == SortNodes(list)
        lenght == Len(sorted)
    IN IF lenght > 0
       THEN IF lower THEN sorted[1] ELSE sorted[lenght]
       ELSE ZeroNode

\* PassError with the empty-name test lost.
PassErrorMetricOnly(bestNodeFound) ==
    IF bestNodeFound.metric = NoMetric THEN "noNodeFound" ELSE "nil"

\* Lines 127-129: the error a ranking pass ends with.
PassError(bestNodeFound) ==
    IF bestNodeFound.name = <<>> \/ bestNodeFound.metric = NoMetric
    THEN "noNodeFound" ELSE "nil"

\* ---------------------------------------------------------- nodesAvailable

\* The status conditions one node object can carry (each type at most once).
Conditions ==
    { <<>>,
      << [type |-> "Ready", status |-> "True"] >>,
      << [type |-> "Ready", status |-> "False"] >>,
      << [type |-> "DiskPressure", status |-> "True"] >>,
      << [type |-> "DiskPressure", status |-> "True"], [type |-> "Ready", status |-> "True"] >> }

NodeObjects == { [name |-> n, conditions |-> c] : n \in Names, c \in Conditions }

\* What kubeAPI.ListNodes can return: node objects with distinct names.
Listings ==
    { l \in SeqsUpTo(NodeObjects, MaxListed) :
        \A i, j \in 1 .. Len(l) : i # j => l[i].name # l[j].name }

\* ReadyOfNode with the type test lost: any condition with status "True".
RECURSIVE ReadyOfNodeAnyType(_, _)
ReadyOfNodeAnyType(name, conditions) ==
    IF conditions = <<>> THEN <<>>
    ELSE (IF Head(conditions).status = "True" THEN <<name>> ELSE <<>>)
         \o ReadyOfNodeAnyType(name, Tail(conditions))

\* The inner loop of lines 161-165 over one node's conditions.
RECURSIVE ReadyOfNode(_, _)
ReadyOfNode(name, conditions) ==
    IF conditions = <<>> THEN <<>>
    ELSE (IF Head(conditions).status = "True" /\ Head(conditions).type = "Ready"
          THEN <<name>> ELSE <<>>)
         \o ReadyOfNode(name, Tail(conditions))

\* The loop of lines 160-166: readyNodes after ranging over the listing.
RECURSIVE ReadyNames(_)
ReadyNames(listing) ==
    IF listing = <<>> THEN <<>>
    ELSE ReadyOfNode(Head(listing).name, Head(listing).conditions)
         \o ReadyNames(Tail(listing))

\* ----------------------------------------------------------------- cache

\* A Cache slot: Data() answers (data, ok); SetData(v) makes it hold v.
EmptyCache == [ok |-> FALSE, data |-> <<>>]

EmptyNodeCache == [ok |-> FALSE, data |-> ZeroNode]

SetData(v) == [ok |-> TRUE, data |-> v]

\* DeepEqual taken for a comparison of the two lists' elements as sets.
DeepEqualAsSets(x, y) == Range(x) = Range(y)

\* reflect.DeepEqual on two []string values.
DeepEqual(x, y) ==
    /\ Len(x) = Len(y)
    /\ \A i \in 1 .. Len(x) : x[i] = y[i]

\* ----------------------------------------------------------------- state

VARIABLES
    sysdigMetricLower,       \* the configured "lower is better" mode
    cachedNodes,             \* Cache slot: the ready-node list
    bestCachedNode,          \* Cache slot: the best node
    bestNodeMutex,           \* the caller holding the mutex, or "free"
    pc,                      \* each caller's position
    nodes,                   \* getBestNodeByMetrics: the argument
    pending,                 \* the workers (indexes of nodes) not yet Done
    nodeStatsChannel,        \* successes, in the order the workers sent them
    nodeStatsErrorsChannel,  \* failures, in the order the workers sent them
    nodeList,                \* the local nodeList (sorted in place by sort.Sort)
    ret,                     \* getBestNodeByMetrics: (bestNodeFound, err)
    readyNodes,              \* nodesAvailable: the local and return value
    listing,                 \* nodesAvailable: whether ListNodes was called by this
                             \* call, whether it failed, and the names of the nodes
                             \* it answered that carry a Ready/True condition
    path,                    \* how the current getBestNodeByMetrics call was answered
    queries,                 \* getMetrics calls issued by the current call
    asked,                   \* the (worker, hostname) pairs of those getMetrics calls
    bestFrom,                \* the argument of the pass that wrote bestCachedNode
    last,                    \* the previous completed getBestNodeByMetrics call
    clusterReady,            \* the names of the cluster's nodes that are ready now
    degraded,                \* the list stored by the last nodesAvailable call whose
                             \* ListNodes failed
    probe                    \* one getMetrics evaluation: hostname, answer, result

vars == << sysdigMetricLower, cachedNodes, bestCachedNode, bestNodeMutex, pc, nodes,
           pending, nodeStatsChannel, nodeStatsErrorsChannel, nodeList, ret,
           readyNodes, listing, path, queries, asked, bestFrom, last,
           clusterReady, degraded, probe >>

NoReturn == [node |-> ZeroNode, err |-> "nil"]

NoListing == [called |-> FALSE, err |-> FALSE, ready |-> {}]

NoCall == [called |-> FALSE, nodes |-> <<>>, ret |-> NoReturn, queries |-> 0]

NoDegraded == [set |-> FALSE, list |-> <<>>]

NoProbe == [done |-> FALSE, hostname |-> <<>>,
            resp |-> [transport |-> TRUE, status |-> 0,
                      body |-> [json |-> FALSE, data |-> <<>>]],
            got |-> [metricValue |-> 0, err |-> "nil"]]

Init ==
    /\ sysdigMetricLower \in BOOLEAN
    /\ cachedNodes = EmptyCache
    /\ bestCachedNode = EmptyNodeCache
    /\ bestNodeMutex = "free"
    /\ pc = [p \in Callers |-> "idle"]
    /\ nodes = [p \in Callers |-> <<>>]
    /\ pending = [p \in Callers |-> {}]
    /\ nodeStatsChannel = [p \in Callers |-> <<>>]
    /\ nodeStatsErrorsChannel = [p \in Callers |-> <<>>]
    /\ nodeList = [p \in Callers |-> <<>>]
    /\ ret = [p \in Callers |-> NoReturn]
    /\ readyNodes = [p \in Callers |-> <<>>]
    /\ listing = [p \in Callers |-> NoListing]
    /\ path = [p \in Callers |-> "none"]
    /\ queries = [p \in Callers |-> 0]
    /\ asked = [p \in Callers |-> {}]
    /\ bestFrom = <<>>
    /\ last = NoCall
    /\ clusterReady = {}
    /\ degraded = NoDegraded
    /\ probe = NoProbe

cacheVars == << cachedNodes, bestCachedNode >>
passVars == << pending, nodeStatsChannel, nodeStatsErrorsChannel, nodeList >>
callVars == << nodes, ret, path, queries, asked >>
listVars == << readyNodes, listing >>

\* ------------------------------------------------- getBestNodeByMetrics

\* A caller enters getBestNodeByMetrics(ns) and reaches bestNodeMutex.Lock().
Call(p, ns) ==
    /\ pc[p] = "idle"
    /\ pc' = [pc EXCEPT ![p] = "lock"]
    /\ nodes' = [nodes EXCEPT ![p] = ns]
    /\ UNCHANGED << sysdigMetricLower, cacheVars, bestNodeMutex, passVars, ret, path,
                    queries, asked, listVars >>

\* CanLock with the mutex lost: Lock returns at once.
CanLockAlways == TRUE

\* sync.Mutex: Lock returns only while no caller holds the mutex.
CanLock == bestNodeMutex = "free"

Lock(p) ==
    /\ pc[p] = "lock"
    /\ CanLock
    /\ bestNodeMutex' = p
    /\ pc' = [pc EXCEPT ![p] = "check"]
    /\ UNCHANGED << sysdigMetricLower, cacheVars, passVars, callVars, listVars >>

\* CheckOutcome with the cache test moved before the empty-list test.
CheckOutcomeCacheFirst(ns) ==
    IF cachedNodes.ok /\ DeepEqual(cachedNodes.data, ns) /\ bestCachedNode.ok THEN "hit"
    ELSE IF Len(ns) = 0 THEN "empty"
    ELSE "miss"

\* Lines 74-86: how the call is answered before any query is issued.
CheckOutcome(ns) ==
    IF Len(ns) = 0 THEN "empty"
    ELSE IF cachedNodes.ok /\ DeepEqual(cachedNodes.data, ns) /\ bestCachedNode.ok
         THEN "hit"
         ELSE "miss"

\* Lines 74-110: the empty-list return, the cache return, or the fan-out of
\* one worker per element of nodes.
Check(p) ==
    /\ pc[p] = "check"
    /\ LET outcome == CheckOutcome(nodes[p])
       IN \/ /\ outcome = "empty"
             /\ ret' = [ret EXCEPT ![p] = [node |-> ZeroNode, err |-> "emptyNodeList"]]
             /\ path' = [path EXCEPT ![p] = "empty"]
             /\ pc' = [pc EXCEPT ![p] = "exit"]
             /\ UNCHANGED pending
          \/ /\ outcome = "hit"
             /\ ret' = [ret EXCEPT ![p] = [node |-> bestCachedNode.data, err |-> "nil"]]
             /\ path' = [path EXCEPT ![p] = "hit"]
             /\ pc' = [pc EXCEPT ![p] = "exit"]
             /\ UNCHANGED pending
          \/ /\ outcome = "miss"
             /\ pending' = [pending EXCEPT ![p] = 1 .. Len(nodes[p])]
             /\ path' = [path EXCEPT ![p] = "pass"]
             /\ pc' = [pc EXCEPT ![p] = "wait"]
             /\ UNCHANGED ret
    /\ UNCHANGED << sysdigMetricLower, cacheVars, bestNodeMutex, nodes, queries, asked,
                    nodeStatsChannel, nodeStatsErrorsChannel, nodeList, listVars >>

\* Line 103: what getMetrics(hostname) can return, over the backend's answers.
Answered(hostname) == { getMetrics(hostname, resp) : resp \in Responses }

\* Lines 90-91: both channels are made with room for one Node per element.
ChannelCap(ns) == Len(ns)

\* Lines 97-109: the worker of nodes[i] calls getMetrics once, sends one Node
\* on one of the two buffered channels and is Done.  A send on a full channel
\* would not return.
Worker(p, i) ==
    /\ pc[p] = "wait"
    /\ i \in pending[p]
    /\ \E got \in Answered(ShortHost(nodes[p][i])) :
         LET nodeName == nodes[p][i]
         IN IF got.err = "nil"
            THEN /\ Len(nodeStatsChannel[p]) < ChannelCap(nodes[p])
                 /\ nodeStatsChannel' = [nodeStatsChannel EXCEPT ![p] =
                        Append(@, [name |-> nodeName, metric |-> got.metricValue, err |-> "nil"])]
                 /\ UNCHANGED nodeStatsErrorsChannel
            ELSE /\ Len(nodeStatsErrorsChannel[p]) < ChannelCap(nodes[p])
                 /\ nodeStatsErrorsChannel' = [nodeStatsErrorsChannel EXCEPT ![p] =
                        Append(@, [name |-> nodeName, metric |-> 0, err |-> got.err])]
                 /\ UNCHANGED nodeStatsChannel
    /\ pending' = [pending EXCEPT ![p] = @ \ {i}]
    /\ queries' = [queries EXCEPT ![p] = @ + 1]
    /\ asked' = [asked EXCEPT ![p] =
                    @ \cup { [worker |-> i, hostname |-> ShortHost(nodes[p][i])] }]
    /\ UNCHANGED << sysdigMetricLower, cacheVars, bestNodeMutex, pc, nodes, nodeList,
                    ret, path, listVars >>

\* StoresBest with the store lost: no pass writes bestCachedNode.
StoresBestNever(err) == FALSE

\* StoresBest with the test lost: every pass writes bestCachedNode.
StoresBestAlways(err) == TRUE

\* Line 131: the result is stored when the pass ended without error.
StoresBest(err) == err = "nil"

\* WaitDone with the wait lost: the pass goes on while workers are running.
WaitDoneAlways(p) == TRUE

\* Line 112: wg.Wait() returns once every worker has called wg.Done().
WaitDone(p) == pending[p] = {}

\* Lines 112-135: after wg.Wait() the channels are closed and drained, the best
\* node is selected, and on success it is stored in bestCachedNode.
Join(p) ==
    /\ pc[p] = "wait"
    /\ WaitDone(p)
    /\ LET bestNodeFound == bestNodeFromList(nodeStatsChannel[p], sysdigMetricLower)
           err == PassError(bestNodeFound)
       IN /\ nodeList' = [nodeList EXCEPT ![p] = SortNodes(nodeStatsChannel[p])]
          /\ ret' = [ret EXCEPT ![p] = [node |-> bestNodeFound, err |-> err]]
          /\ IF StoresBest(err)
             THEN bestCachedNode' = SetData(bestNodeFound)
             ELSE UNCHANGED bestCachedNode
    /\ nodeStatsChannel' = [nodeStatsChannel EXCEPT ![p] = <<>>]
    /\ nodeStatsErrorsChannel' = [nodeStatsErrorsChannel EXCEPT ![p] = <<>>]
    /\ pc' = [pc EXCEPT ![p] = "exit"]
    /\ UNCHANGED << sysdigMetricLower, cachedNodes, bestNodeMutex, nodes, pending, path,
                    queries, asked, listVars >>

\* Unlocked with the deferred call lost: the caller returns holding the mutex.
UnlockedNever(p) == p

\* Line 72: the deferred bestNodeMutex.Unlock() leaves the mutex free.
Unlocked(p) == "free"

\* The deferred bestNodeMutex.Unlock() and the return to the caller.
Return(p) ==
    /\ pc[p] = "exit"
    /\ bestNodeMutex' = Unlocked(p)
    /\ pc' = [pc EXCEPT ![p] = "idle"]
    /\ nodes' = [nodes EXCEPT ![p] = <<>>]
    /\ ret' = [ret EXCEPT ![p] = NoReturn]
    /\ path' = [path EXCEPT ![p] = "none"]
    /\ queries' = [queries EXCEPT ![p] = 0]
    /\ asked' = [asked EXCEPT ![p] = {}]
    /\ nodeList' = [nodeList EXCEPT ![p] = <<>>]
    /\ UNCHANGED << sysdigMetricLower, cacheVars, pending, nodeStatsChannel,
                    nodeStatsErrorsChannel, listVars >>

\* ---------------------------------------------------------- nodesAvailable

\* Lines 152-154: the cached list is returned when the slot holds data.
ListCheck(p) ==
    /\ pc[p] = "idle"
    /\ IF cachedNodes.ok
       THEN /\ readyNodes' = [readyNodes EXCEPT ![p] = cachedNodes.data]
            /\ pc' = [pc EXCEPT ![p] = "listed"]
       ELSE /\ pc' = [pc EXCEPT ![p] = "list"]
            /\ UNCHANGED readyNodes
    /\ UNCHANGED << sysdigMetricLower, cacheVars, bestNodeMutex, passVars, callVars,
                    listing >>

\* What the loops of lines 160-166 make of each answer of ListNodes: the
\* list readyNodes they build, and the set of names of the answer's nodes
\* that have a condition Ready with status True.
ListOutcomes ==
    { [readyNodes |-> ReadyNames(l),
       ready |-> { l[i].name : i \in { k \in 1 .. Len(l) :
                    \E c \in Range(l[k].conditions) :
                        c.type = "Ready" /\ c.status = "True" } }] : l \in Listings }

\* Lines 156-166: ListNodes answers (with or without an error, which is only
\* logged) and the ready names are collected.
ListNodes(p) ==
    /\ pc[p] = "list"
    /\ \E o \in ListOutcomes, e \in BOOLEAN :
         /\ listing' = [listing EXCEPT ![p] =
                [called |-> TRUE, err |-> e, ready |-> o.ready]]
         /\ readyNodes' = [readyNodes EXCEPT ![p] = o.readyNodes]
    /\ pc' = [pc EXCEPT ![p] = "store"]
    /\ UNCHANGED << sysdigMetricLower, cacheVars, bestNodeMutex, passVars, callVars >>

\* Line 168: cachedNodes.SetData(readyNodes).
ListStore(p) ==
    /\ pc[p] = "store"
    /\ cachedNodes' = SetData(readyNodes[p])
    /\ pc' = [pc EXCEPT ![p] = "listed"]
    /\ UNCHANGED << sysdigMetricLower, bestCachedNode, bestNodeMutex, passVars,
                    callVars, listVars >>

\* nodesAvailable returns readyNodes to its caller.
ListReturn(p) ==
    /\ pc[p] = "listed"
    /\ pc' = [pc EXCEPT ![p] = "idle"]
    /\ readyNodes' = [readyNodes EXCEPT ![p] = <<>>]
    /\ listing' = [listing EXCEPT ![p] = NoListing]
    /\ UNCHANGED << sysdigMetricLower, cacheVars, bestNodeMutex, passVars, callVars >>

\* ---------------------------------------------------------- specification

\* The history variables stay as they are.
NoHistory == UNCHANGED << bestFrom, last, clusterReady, degraded, probe >>

\* The history of caller p's step: the list whose pass wrote bestCachedNode,
\* and the getBestNodeByMetrics call that returned last.
History(p) ==
    /\ bestFrom' = IF pc[p] = "wait" /\ pc'[p] = "exit" /\ ret'[p].err = "nil"
                   THEN nodes[p] ELSE bestFrom
    /\ last' = IF pc[p] = "exit" /\ pc'[p] = "idle"
               THEN [called |-> TRUE, nodes |-> nodes[p], ret |-> ret[p],
                     queries |-> queries[p]]
               ELSE last
    /\ UNCHANGED << clusterReady, degraded, probe >>

\* Every interleaving of the callers' steps.
Next ==
    \E p \in Callers :
        \/ \E ns \in NodeLists : Call(p, ns) /\ NoHistory
        \/ Lock(p) /\ NoHistory
        \/ Check(p) /\ NoHistory
        \/ \E i \in 1 .. MaxLen : Worker(p, i) /\ NoHistory
        \/ Join(p) /\ NoHistory
        \/ Return(p) /\ NoHistory
        \/ ListCheck(p) /\ NoHistory
        \/ ListNodes(p) /\ NoHistory
        \/ ListStore(p) /\ NoHistory
        \/ ListReturn(p) /\ NoHistory

Spec == Init /\ [][Next]_vars

\* One caller issuing call after call, with the history of its calls recorded.
NextHistory ==
    \E p \in {"c1"} :
        \/ \E ns \in NodeLists : Call(p, ns) /\ History(p)
        \/ Lock(p) /\ History(p)
        \/ Check(p) /\ History(p)
        \/ \E i \in 1 .. MaxLen : Worker(p, i) /\ History(p)
        \/ Join(p) /\ History(p)
        \/ Return(p) /\ History(p)
        \/ ListCheck(p) /\ History(p)
        \/ ListNodes(p) /\ History(p)
        \/ ListStore(p) /\ History(p)
        \/ ListReturn(p) /\ History(p)

SpecHistory == Init /\ [][NextHistory]_vars

\* The cluster's set of ready nodes changes (a step of the environment).
ClusterChange ==
    /\ \E r \in SUBSET Names :
           /\ r # clusterReady
           /\ clusterReady' = r
    /\ UNCHANGED << sysdigMetricLower, cacheVars, bestNodeMutex, pc, passVars,
                    callVars, listVars, bestFrom, last, degraded, probe >>

\* In caller p's step kubeAPI.ListNodes, when it is taken, answers without
\* error what the cluster holds now.
Observes(p) ==
    /\ (pc[p] = "list" /\ pc'[p] = "store") =>
           /\ ~ listing'[p].err
           /\ listing'[p].ready = clusterReady
    /\ UNCHANGED << bestFrom, last, clusterReady, degraded, probe >>

\* One caller issuing call after call against a cluster whose set of ready
\* nodes changes.
NextCluster ==
    \/ ClusterChange
    \/ \E p \in {"c1"} :
           \/ \E ns \in NodeLists : Call(p, ns) /\ Observes(p)
           \/ Lock(p) /\ Observes(p)
           \/ Check(p) /\ Observes(p)
           \/ \E i \in 1 .. MaxLen : Worker(p, i) /\ Observes(p)
           \/ Join(p) /\ Observes(p)
           \/ Return(p) /\ Observes(p)
           \/ ListCheck(p) /\ Observes(p)
           \/ ListNodes(p) /\ Observes(p)
           \/ ListStore(p) /\ Observes(p)
           \/ ListReturn(p) /\ Observes(p)

SpecCluster == Init /\ [][NextCluster]_vars

\* getMetrics is called once, on its own, with some host name; the backend
\* gives some answer.
Probe ==
    /\ ~ probe.done
    /\ \E n \in Names, resp \in ProbeResponses :
           probe' = [done |-> TRUE, hostname |-> ShortHost(n), resp |-> resp,
                     got |-> getMetrics(ShortHost(n), resp)]
    /\ UNCHANGED << sysdigMetricLower, cacheVars, bestNodeMutex, pc, passVars,
                    callVars, listVars, bestFrom, last, clusterReady, degraded >>

SpecMetrics == Init /\ [][Probe]_vars

\* In caller p's step the backend, when it is asked, answers with the metric
\* 0 or with a status other than 200, and kubeAPI.ListNodes, when it is
\* called, answers without error.
Answers(p) ==
    /\ \A k \in 1 .. Len(nodeStatsChannel'[p]) : nodeStatsChannel'[p][k].metric = 0
    /\ \A k \in 1 .. Len(nodeStatsErrorsChannel'[p]) :
           nodeStatsErrorsChannel'[p][k].err = "status"
    /\ (pc[p] = "list" /\ pc'[p] = "store") => ~ listing'[p].err
    /\ NoHistory

\* Every interleaving of the callers' steps, with those answers.
NextFair ==
    \E p \in Callers :
        \/ \E ns \in NodeLists : Call(p, ns) /\ Answers(p)
        \/ Lock(p) /\ Answers(p)
        \/ Check(p) /\ Answers(p)
        \/ \E i \in 1 .. MaxLen : Worker(p, i) /\ Answers(p)
        \/ Join(p) /\ Answers(p)
        \/ Return(p) /\ Answers(p)
        \/ ListCheck(p) /\ Answers(p)
        \/ ListNodes(p) /\ Answers(p)
        \/ ListStore(p) /\ Answers(p)
        \/ ListReturn(p) /\ Answers(p)

\* A step of caller p inside getBestNodeByMetrics once it holds the mutex.
Progress(p) ==
    \/ Check(p) /\ Answers(p)
    \/ \E i \in 1 .. MaxLen : Worker(p, i) /\ Answers(p)
    \/ Join(p) /\ Answers(p)
    \/ Return(p) /\ Answers(p)

\* Fair scheduling: a goroutine that can take a step inside
\* getBestNodeByMetrics takes it, every getMetrics call returns, and a caller
\* waiting in Lock gets the mutex if it is released again and again
\* (sync.Mutex hands a starving waiter the mutex).  Nothing obliges a caller
\* to call at all.
Fairness ==
    \A p \in Callers :
        /\ WF_vars(Progress(p))
        /\ SF_vars(Lock(p) /\ Answers(p))

SpecFair == Init /\ [][NextFair]_vars /\ Fairness

\* The history of caller p's step: the list a nodesAvailable call stores
\* after its ListNodes failed.
Degrades(p) ==
    /\ degraded' = IF pc[p] = "store" /\ pc'[p] = "listed" /\ listing[p].err
                   THEN [set |-> TRUE, list |-> readyNodes[p]]
                   ELSE degraded
    /\ UNCHANGED << bestFrom, last, clusterReady, probe >>

\* Two callers of nodesAvailable, in every interleaving.
NextListing ==
    \E p \in Callers :
        \/ ListCheck(p) /\ Degrades(p)
        \/ ListNodes(p) /\ Degrades(p)
        \/ ListStore(p) /\ Degrades(p)
        \/ ListReturn(p) /\ Degrades(p)

SpecListing == Init /\ [][NextListing]_vars

\* --------------------------------------------------------------- claims

\* A caller whose ranking pass joins in this step: the channels hold what the
\* workers sent, ret' what the call returns.
Joins(p) == pc[p] = "wait" /\ pc'[p] = "exit"

\* C1: every getBestNodeByMetrics call that returns without error returns a
\* Node whose name is an element of its own input list, cache answers
\* included; any other call returns noNodeFound or emptyNodeList.
C1_ResultInInput ==
    \A p \in Callers :
        pc[p] = "exit" =>
            IF ret[p].err = "nil"
            THEN ret[p].node.name \in Range(nodes[p])
            ELSE ret[p].err \in {"noNodeFound", "emptyNodeList"}

\* C2: a ranking pass that returns without error returns a node whose metric
\* is <= (lower is better) or >= (otherwise) the metric of every candidate
\* whose getMetrics call succeeded in that pass.
C2_Extremal ==
    [][\A p \in Callers :
          Joins(p) /\ ret'[p].err = "nil" =>
              \A i \in 1 .. Len(nodeStatsChannel[p]) :
                  IF sysdigMetricLower
                  THEN ret'[p].node.metric <= nodeStatsChannel[p][i].metric
                  ELSE ret'[p].node.metric >= nodeStatsChannel[p][i].metric]_vars

\* A pass over two nodes that both answered, with different metrics, returned
\* without error.
C2_Witness ==
    \E p \in Callers :
        /\ pc[p] = "exit" /\ path[p] = "pass" /\ ret[p].err = "nil"
        /\ Len(nodeList[p]) = 2
        /\ nodeList[p][1].metric # nodeList[p][2].metric

\* C3: bestCachedNode is returned without queries only when it was produced by
\* a pass over a list equal to the input; in particular a call whose list
\* differs from the previous call's list issues fresh queries.
C3_CacheTrusted ==
    \A p \in Callers :
        /\ pc[p] = "exit" /\ path[p] = "hit" => bestFrom = nodes[p]
        /\ pc[p] = "exit" /\ nodes[p] # <<>> /\ last.called /\ last.nodes # nodes[p]
               => path[p] = "pass"

\* C4: of two consecutive successful calls with the identical list, the first
\* of which ran a pass, the first issues len(nodes) queries and the second
\* issues none and returns the same Node.
C4_Idempotent ==
    \A p \in Callers :
        /\ pc[p] = "exit" /\ ret[p].err = "nil"
        /\ last.called /\ last.ret.err = "nil" /\ last.queries > 0
        /\ last.nodes = nodes[p]
        => /\ last.queries = Len(nodes[p])
           /\ queries[p] = 0
           /\ ret[p].node = last.ret.node

\* C5: a call with an empty list returns emptyNodeList and issues no getMetrics
\* call, whatever the cache holds.
C5_EmptyList ==
    \A p \in Callers :
        /\ pc[p] = "wait" => nodes[p] # <<>>
        /\ pc[p] = "exit" /\ nodes[p] = <<>>
               => ret[p].err = "emptyNodeList" /\ queries[p] = 0

\* An empty-list call has been answered while cachedNodes holds the (equal)
\* empty list and bestCachedNode holds a node.
C5_Witness ==
    \E p \in Callers :
        /\ pc[p] = "exit" /\ nodes[p] = <<>> /\ path[p] = "empty"
        /\ cachedNodes.ok /\ cachedNodes.data = <<>>
        /\ bestCachedNode.ok

\* C6: a pass over a non-empty list in which every getMetrics call failed ends
\* with noNodeFound and the empty Node.
C6_AllFailed ==
    [][\A p \in Callers :
          Joins(p) /\ nodeStatsChannel[p] = <<>> =>
              /\ Len(nodeStatsErrorsChannel[p]) = Len(nodes[p])
              /\ ret'[p] = [node |-> ZeroNode, err |-> "noNodeFound"]]_vars

\* A pass over two nodes whose queries both failed has ended.
C6_Witness ==
    \E p \in Callers :
        /\ pc[p] = "exit" /\ path[p] = "pass" /\ Len(nodes[p]) = 2
        /\ queries[p] = 2 /\ nodeList[p] = <<>>
        /\ ret[p].err = "noNodeFound"

\* C7: in a pass where some candidates fail and at least one succeeds, the
\* call does not fail and returns the extremal node among the successful
\* candidates.
C7_FailuresIsolated ==
    [][\A p \in Callers :
          Joins(p) /\ nodeStatsChannel[p] # <<>> /\ nodeStatsErrorsChannel[p] # <<>> =>
              /\ ret'[p].err = "nil"
              /\ ret'[p].node \in Range(nodeStatsChannel[p])
              /\ \A i \in 1 .. Len(nodeStatsChannel[p]) :
                    IF sysdigMetricLower
                    THEN ret'[p].node.metric <= nodeStatsChannel[p][i].metric
                    ELSE ret'[p].node.metric >= nodeStatsChannel[p][i].metric]_vars

\* C8: at most one caller is between the cache check and the return that
\* follows the cache write.
C8_MutualExclusion ==
    Cardinality({ p \in Callers : pc[p] \in {"check", "wait", "exit"} }) <= 1

\* One caller is inside a pass with a worker outstanding while another is
\* blocked in Lock.
C8_Witness ==
    \E p, q \in Callers :
        /\ p # q
        /\ pc[p] = "wait" /\ pending[p] # {}
        /\ pc[q] = "lock"

\* C9: a pass fails with noNodeFound only when no candidate succeeded; when the
\* selected node has any metric, -1 included, the call returns it without
\* error and stores it in bestCachedNode.
C9_SentinelDistinct ==
    [][\A p \in Callers :
          Joins(p) =>
              /\ ret'[p].err = "noNodeFound" <=> nodeStatsChannel[p] = <<>>
              /\ nodeStatsChannel[p] # <<>> =>
                    /\ ret'[p].err = "nil"
                    /\ bestCachedNode' = SetData(ret'[p].node)]_vars

\* C10: nodesAvailable with no cached data returns the names of the listed
\* nodes that have a Ready/True condition, and no other name, and stores that
\* list in cachedNodes; with cached data it returns the cached list and does
\* not call ListNodes.
C10_NodesAvailable ==
    [][\A p \in Callers :
          /\ pc[p] = "idle" /\ pc'[p] \in {"list", "listed"} =>
                IF cachedNodes.ok
                THEN /\ pc'[p] = "listed"
                     /\ readyNodes'[p] = cachedNodes.data
                     /\ ~listing'[p].called
                ELSE pc'[p] = "list"
          /\ pc[p] = "list" /\ pc'[p] = "store" =>
                /\ listing'[p].called
                /\ Range(readyNodes'[p]) = listing'[p].ready
          /\ pc[p] = "store" /\ pc'[p] = "listed" =>
                /\ listing[p].called
                /\ readyNodes'[p] = readyNodes[p]
                /\ cachedNodes' = SetData(readyNodes[p])]_vars

\* A call that found the cache empty and called ListNodes has stored the one
\* ready name it collected and is about to return it.
C10_Witness ==
    \E p \in Callers :
        /\ pc[p] = "listed" /\ listing[p].called
        /\ Len(readyNodes[p]) = 1
        /\ cachedNodes = SetData(readyNodes[p])

\* C11: staleness is detected by mismatch.  Once the cluster's set of ready
\* nodes differs from the cached one, the cache is no longer used: a
\* nodesAvailable call is answered from cachedNodes only when that list holds
\* the ready nodes of the cluster, and a getBestNodeByMetrics call is answered
\* from bestCachedNode only when cachedNodes holds them.
C11_StalenessDetected ==
    [][ \A p \in Callers :
          /\ (pc[p] = "idle" /\ pc'[p] = "listed") =>
                 Range(readyNodes'[p]) = clusterReady
          /\ (pc[p] = "check" /\ pc'[p] = "exit" /\ path'[p] = "hit") =>
                 Range(cachedNodes.data) = clusterReady ]_vars

\* C12: getMetrics classifies every backend outcome.  A transport error or a
\* status other than 200 gives an error and no value; a 200 answer that parses
\* with no series, or with a first series without samples, gives noDataFound;
\* a 200 answer whose data[0].d[0] exists gives that value and no error, also
\* when the value is 0.
C12_Classified ==
    probe.done =>
        LET r == probe.resp
            g == probe.got
            d == r.body.data
            parsed == ~ r.transport /\ r.status = 200 /\ r.body.json
        IN /\ (r.transport \/ r.status # 200) =>
                  g.err \in {"transport", "status"} /\ g.metricValue = 0
           /\ (parsed /\ (d = <<>> \/ Head(d) = <<>>)) =>
                  g.err = "noDataFound" /\ g.metricValue = 0
           /\ (parsed /\ d # <<>> /\ Head(d) # <<>>) =>
                  g.err = "nil" /\ g.metricValue = Head(Head(d))

\* A 200 answer whose first sample is 0 was classified as the value 0.
C12_Witness ==
    /\ probe.done
    /\ ~ probe.resp.transport /\ probe.resp.status = 200 /\ probe.resp.body.json
    /\ probe.resp.body.data # <<>> /\ Head(probe.resp.body.data) # <<>>
    /\ Head(Head(probe.resp.body.data)) = 0
    /\ probe.got = [metricValue |-> 0, err |-> "nil"]

\* The text of a node name before its first ".".
BeforeDot(name) ==
    LET dots == { k \in 1 .. Len(name) : name[k] = "." }
        first == IF dots = {} THEN Len(name) + 1
                 ELSE CHOOSE k \in dots : \A j \in dots : k <= j
    IN SubSeq(name, 1, first - 1)

\* The workers of caller p's pass that are done.
Finished(p) == (1 .. Len(nodes[p])) \ pending[p]

\* C13: a pass that is not answered from cache runs one worker per element of
\* the input list; each worker calls getMetrics once, with the text of its
\* node name before the first ".", and delivers one Node to one of the two
\* channels, where there is always room for it; the pass selects and returns
\* only after all of them are done, when successes + failures = len(nodes).
C13_OneWorkerEach ==
    [][ \A p \in Callers :
          LET sent == nodeStatsChannel[p] \o nodeStatsErrorsChannel[p]
          IN /\ pc[p] = "wait" =>
                  /\ pending[p] \subseteq 1 .. Len(nodes[p])
                  /\ Len(sent) = Cardinality(Finished(p))
                  /\ { sent[k].name : k \in 1 .. Len(sent) }
                        = { nodes[p][i] : i \in Finished(p) }
                  /\ queries[p] = Cardinality(Finished(p))
                  /\ asked[p] = { [worker |-> i, hostname |-> BeforeDot(nodes[p][i])] :
                                     i \in Finished(p) }
                  /\ pending[p] # {} =>
                        /\ Len(nodeStatsChannel[p]) < Len(nodes[p])
                        /\ Len(nodeStatsErrorsChannel[p]) < Len(nodes[p])
             /\ Joins(p) =>
                  /\ pending[p] = {}
                  /\ Len(sent) = Len(nodes[p])
             /\ (pc[p] = "exit" /\ path[p] = "pass") =>
                  /\ pending[p] = {}
                  /\ queries[p] = Len(nodes[p])
                  /\ Cardinality(asked[p]) = Len(nodes[p]) ]_vars

\* A pass over two nodes, one with a dotted name, has ended with one success
\* and one failure, after two getMetrics calls.
C13_Witness ==
    \E p \in Callers :
        /\ pc[p] = "exit" /\ path[p] = "pass"
        /\ Len(nodes[p]) = 2
        /\ Len(nodeList[p]) = 1
        /\ queries[p] = 2
        /\ [worker |-> 2, hostname |-> <<"b">>] \in asked[p]
        /\ nodes[p][2] = <<"b", ".", "x">>

\* The orders in which the Nodes of channel contents s can have been sent.
Orders(s) ==
    { [i \in 1 .. Len(s) |-> s[f[i]]] :
        f \in { g \in [1 .. Len(s) -> 1 .. Len(s)] :
                  \A i, j \in 1 .. Len(s) : i # j => g[i] # g[j] } }

\* C14: within one pass the outcome is determined by the metric values alone.
\* For the input list and the fetch results of a pass that succeeds, every
\* order in which the workers can have delivered their Nodes gives the Node
\* that the pass returns, also when several nodes share the extremal metric.
C14_OrderIndependent ==
    [][ \A p \in Callers :
          (Joins(p) /\ ret'[p].err = "nil") =>
              \A q \in Orders(nodeStatsChannel[p]) :
                  bestNodeFromList(q, sysdigMetricLower) = ret'[p].node ]_vars

\* C15: both cache slots are guarded by bestNodeMutex.  While a caller holds
\* the mutex, no other caller takes a step of nodesAvailable that reads
\* cachedNodes (its cache test) or writes it (its SetData), and cachedNodes
\* keeps the value the holder compared its input with.
C15_SlotsGuarded ==
    [][ \A p \in Callers :
          bestNodeMutex = p =>
              /\ cachedNodes' = cachedNodes
              /\ \A q \in Callers \ {p} :
                    /\ ~ (pc[q] = "idle" /\ pc'[q] \in {"list", "listed"})
                    /\ ~ (pc[q] = "store" /\ pc'[q] = "listed") ]_vars

\* C16: under fair scheduling every call of getBestNodeByMetrics returns and
\* releases bestNodeMutex, whatever its return path.  A caller waiting for the
\* mutex gets it and reaches its return through its own cache check and, on
\* a miss, its own pass of len(nodes) queries.
C16_EveryCallReturns ==
    \A p \in Callers :
        /\ (pc[p] = "lock") ~>
               (/\ pc[p] = "exit"
                /\ bestNodeMutex = p
                /\ path[p] \in {"empty", "hit", "pass"}
                /\ path[p] = "pass" => queries[p] = Len(nodes[p]))
        /\ (pc[p] = "exit") ~> (pc[p] = "idle" /\ bestNodeMutex # p)

\* A caller waits in Lock while the other, having run a pass that found no
\* node, is about to return and release the mutex.
C16_Witness ==
    \E p, q \in Callers :
        /\ pc[q] = "lock"
        /\ pc[p] = "exit" /\ path[p] = "pass" /\ ret[p].err = "noNodeFound"
        /\ bestNodeMutex = p

\* C17: a pass that succeeds replaces the cached best node with its result.
\* When a pass ends without error bestCachedNode is set to the Node it
\* returns, the call still holds that Node in bestCachedNode when it returns,
\* and bestCachedNode changes at no step other than the end of a pass that
\* succeeds.
C17_BestReplaced ==
    [][ /\ \A p \in Callers :
             /\ (Joins(p) /\ ret'[p].err = "nil") =>
                    bestCachedNode'.ok /\ bestCachedNode'.data = ret'[p].node
             /\ (pc[p] = "exit" /\ path[p] = "pass" /\ ret[p].err = "nil") =>
                    bestCachedNode.ok /\ bestCachedNode.data = ret[p].node
        /\ bestCachedNode' # bestCachedNode =>
             \E p \in Callers : Joins(p) /\ ret'[p].err = "nil" ]_vars

\* A pass over two nodes has succeeded with the node b.x of metric 1, and
\* bestCachedNode holds it.
C17_Witness ==
    \E p \in Callers :
        /\ pc[p] = "exit" /\ path[p] = "pass" /\ ret[p].err = "nil"
        /\ Len(nodes[p]) = 2
        /\ ret[p].node.name = <<"b", ".", "x">> /\ ret[p].node.metric = 1
        /\ bestCachedNode = [ok |-> TRUE, data |-> ret[p].node]

\* The step is one of caller p inside getBestNodeByMetrics: its call, its
\* Lock, its checks, one of its workers, its join or its return.
InCall(p) ==
    \/ pc[p] = "idle" /\ pc'[p] = "lock"
    \/ pc[p] \in {"lock", "check", "wait", "exit"} /\ pc'[p] # pc[p]
    \/ pending'[p] # pending[p]

\* C18: getBestNodeByMetrics never writes cachedNodes, and it writes
\* bestCachedNode only at the end of a pass that succeeds.  Every step a caller
\* takes between its call and its return leaves cachedNodes as it was, and
\* leaves bestCachedNode as it was unless the step ends a pass without error;
\* the empty-list return, the cache hit and a pass ending in noNodeFound
\* change neither slot.
C18_CacheFrame ==
    [][ \A p \in Callers :
          InCall(p) =>
              /\ cachedNodes' = cachedNodes
              /\ ~ (Joins(p) /\ ret'[p].err = "nil") =>
                     bestCachedNode' = bestCachedNode ]_vars

\* A pass has ended in noNodeFound while bestCachedNode holds a node computed
\* earlier.
C18_Witness ==
    \E p \in Callers :
        /\ pc[p] = "exit" /\ path[p] = "pass" /\ ret[p].err = "noNodeFound"
        /\ bestCachedNode.ok
        /\ bestCachedNode.data.name # <<>>

\* C19: a ListNodes failure is not fatal.  The call stores and returns the
\* ready names among the nodes ListNodes returned, and every nodesAvailable
\* call that starts after a failed listing was stored returns that same
\* list without calling ListNodes.
C19_DegradedKept ==
    [][ \A p \in Callers :
          /\ (pc[p] = "store" /\ pc'[p] = "listed" /\ listing[p].err) =>
                 /\ Range(readyNodes'[p]) = listing[p].ready
                 /\ cachedNodes' = [ok |-> TRUE, data |-> readyNodes'[p]]
          /\ (degraded.set /\ pc[p] = "idle" /\ pc'[p] # "idle") =>
                 /\ pc'[p] = "listed"
                 /\ readyNodes'[p] = degraded.list ]_vars

\* C20: cache validity is exact sequence equality.  A call is answered from
\* bestCachedNode only when its input equals cachedNodes position by
\* position; a non-empty input that differs from cachedNodes in length or in
\* any position, the same elements in another order included, starts a pass
\* with one worker per element.
C20_ExactSequence ==
    [][ \A p \in Callers :
          (pc[p] = "check" /\ pc'[p] # "check") =>
              LET same == /\ Len(nodes[p]) = Len(cachedNodes.data)
                          /\ \A i \in 1 .. Len(nodes[p]) :
                                 nodes[p][i] = cachedNodes.data[i]
              IN /\ path'[p] = "hit" =>
                      cachedNodes.ok /\ bestCachedNode.ok /\ same
                 /\ (nodes[p] # <<>> /\ ~ same) =>
                      /\ pc'[p] = "wait"
                      /\ path'[p] = "pass"
                      /\ pending'[p] = 1 .. Len(nodes[p]) ]_vars

\* A call whose input holds the elements of cachedNodes in another order
\* has run a pass of its own while a cached best node existed.
C20_Witness ==
    \E p \in Callers :
        /\ pc[p] = "exit" /\ path[p] = "pass"
        /\ cachedNodes.ok /\ bestCachedNode.ok
        /\ Len(nodes[p]) = 2
        /\ Range(nodes[p]) = Range(cachedNodes.data)
        /\ nodes[p] # cachedNodes.data
        /\ queries[p] = 2

====
